---- MODULE Spec2Model ----
(***************************************************************************)
(* Model of the vdf crate (src/src/lib.rs, src/src/main.rs): two           *)
(* Verifiable Delay Functions, each an eval/verify pair of pure functions  *)
(* over arbitrary-precision integers.                                      *)
(*                                                                         *)
(*   vdf_mod_sqrt  iterated modular square roots in F_p                    *)
(*   vdf_mimc      MiMC permutation run backward (eval) / forward (verify) *)
(*                                                                         *)
(* The functions are operators computed as the code computes them, loop    *)
(* by loop.  A run of a loop is a record carrying the loop variable and    *)
(* what the run did (iterations, values after the XOR step, how it ended), *)
(* so that panics (a failing unwrap) and a while loop that does not exit   *)
(* are outcomes of the model and not errors of the model checker.          *)
(*                                                                         *)
(* A behaviour is one caller's session: Init draws the arguments, then     *)
(* eval may be called on them, then verify is called once.  The functions  *)
(* keep no state between calls, so longer sessions add nothing.            *)
(***************************************************************************)
EXTENDS Integers, Sequences, FiniteSets, TLC

(***************************************************************************)
(* Bounds of the model.                                                    *)
(***************************************************************************)
\* Largest modulus a session of the square-root variant is given.
MaxModulus == 19
\* Largest num_steps.
MaxSteps == 3
\* Seeds and witnesses are drawn from -Margin .. MaxModulus + Margin.
Margin == 3
\* Executions of a while body after which a run is reported as not exiting.
MaxRetry == 3

Moduli == 1..MaxModulus
Steps == 0..MaxSteps
Values == (0 - Margin)..(MaxModulus + Margin)

(***************************************************************************)
(* rug::Integer arithmetic.                                                *)
(***************************************************************************)
\* Option<Integer>
Some(v) == [some |-> TRUE, val |-> v]
None == [some |-> FALSE, val |-> 0]

\* Bitwise XOR of two non-negative integers.
RECURSIVE BitXor(_, _)
BitXor(a, b) ==
    IF a = 0 THEN b
    ELSE IF b = 0 THEN a
    ELSE (((a % 2) + (b % 2)) % 2) + (2 * BitXor(a \div 2, b \div 2))

\* Mutation: `v |= 1`, an OR for the XOR.
Xor1_or(v) == IF v % 2 = 0 THEN v + 1 ELSE v

\* Mutation: `v += 1`, an increment for the XOR.
Xor1_inc(v) == v + 1

\* `v ^= 1` on an Integer (two's complement semantics for negative v).
Xor1(v) == IF v % 2 = 0 THEN v + 1 ELSE v - 1

\* `a % &m` of rug: remainder of truncated division (sign of the dividend).
trunc_rem(a, m) == IF a >= 0 THEN a % m ELSE 0 - ((0 - a) % m)

\* Mutation: the seed reduced with `%`, which keeps the dividend's sign.
div_rem_floor_rem_trunc(a, m) == trunc_rem(a, m)

\* Integer::div_rem_floor(..).1 : the remainder of floor division.
div_rem_floor_rem(a, m) == a % m

\* `a / b` of rug: truncated division.
trunc_div(a, b) == IF a >= 0 THEN a \div b ELSE 0 - ((0 - a) \div b)

RECURSIVE ModExp(_, _, _)
ModExp(b, e, m) ==
    IF e = 0 THEN 1 % m
    ELSE IF e % 2 = 0 THEN ModExp((b * b) % m, e \div 2, m)
    ELSE (b * ModExp((b * b) % m, e \div 2, m)) % m

\* Integer::pow_mod / pow_mod_mut: Some(base^exponent mod modulus), in
\* [0, modulus); for a negative exponent the inverse is used and the result
\* is None when there is none.
pow_mod(base, exponent, modulus) ==
    IF exponent >= 0 THEN Some(ModExp(base % modulus, exponent, modulus))
    ELSE LET b == ModExp(base % modulus, 0 - exponent, modulus)
             inv == {y \in 0..(modulus - 1) : (y * b) % modulus = 1 % modulus}
         IN  IF inv = {} THEN None ELSE Some(CHOOSE y \in inv : TRUE)

(***************************************************************************)
(* vdf_mod_sqrt                                                            *)
(***************************************************************************)
\* Mutation: the range check off by one, `x >= modulus - 1`.
out_of_range_tight(v, modulus) == v >= modulus - 1 \/ v = 0

\* Mutation: the range check with `>` for `>=`.
out_of_range_gt(v, modulus) == v > modulus \/ v = 0

\* The condition of `while x >= modulus || x == 0`.
out_of_range(v, modulus) == v >= modulus \/ v = 0

\* The while loop; n counts the executions of its body.
RECURSIVE xor_while(_, _, _)
xor_while(v, modulus, n) ==
    IF out_of_range(v, modulus)
    THEN IF n = MaxRetry THEN [v |-> v, retries |-> n, exited |-> FALSE]
         ELSE xor_while(Xor1(v), modulus, n + 1)
    ELSE [v |-> v, retries |-> n, exited |-> TRUE]

\* `x ^= 1; while x >= modulus || x == 0 { x ^= 1; }`
xor_permutation(v, modulus) == xor_while(Xor1(v), modulus, 0)

\* A run of a loop of eval or verify: x is the loop variable, iters the
\* iterations completed, permuted the values held right after the XOR step,
\* retries the while-body executions of each XOR step, status how it goes.
StartRun(x0) ==
    [x |-> x0, status |-> "ok", iters |-> 0, permuted |-> <<>>, retries |-> <<>>]

\* `let exponent = (modulus.clone() + 1) / 4;`
sqrt_exponent(modulus) == trunc_div(modulus + 1, 4)

\* One iteration of eval's for loop.
eval_iter(run, modulus) ==
    LET p == xor_permutation(run.x, modulus)
        r == pow_mod(p.v, sqrt_exponent(modulus), modulus)
    IN  IF ~p.exited THEN [run EXCEPT !.status = "diverged"]
        ELSE IF ~r.some THEN [run EXCEPT !.status = "panic"]
        ELSE [x |-> r.val, status |-> "ok", iters |-> run.iters + 1,
              permuted |-> Append(run.permuted, p.v),
              retries |-> Append(run.retries, p.retries)]

RECURSIVE eval_loop(_, _, _)
eval_loop(run, k, modulus) ==
    IF k = 0 \/ run.status # "ok" THEN run
    ELSE eval_loop(eval_iter(run, modulus), k - 1, modulus)

\* vdf_mod_sqrt::eval; the returned Integer is .x of a run that ends "ok".
eval(modulus, seed, num_steps) ==
    eval_loop(StartRun(div_rem_floor_rem(seed, modulus)), num_steps, modulus)

\* Mutation: a cube for the square.
cube == 2 + 1

\* `let square: Integer = 2u64.into();`
square == 2

\* One iteration of verify's for loop.
verify_iter(run, modulus) ==
    LET s == pow_mod(run.x, square, modulus)
        inv_result == 0 - s.val
        p == xor_permutation(div_rem_floor_rem(inv_result, modulus), modulus)
    IN  IF ~s.some THEN [run EXCEPT !.status = "panic"]
        ELSE IF ~p.exited THEN [run EXCEPT !.status = "diverged"]
        ELSE [x |-> p.v, status |-> "ok", iters |-> run.iters + 1,
              permuted |-> Append(run.permuted, p.v),
              retries |-> Append(run.retries, p.retries)]

RECURSIVE verify_loop(_, _, _)
verify_loop(run, k, modulus) ==
    IF k = 0 \/ run.status # "ok" THEN run
    ELSE verify_loop(verify_iter(run, modulus), k - 1, modulus)

\* The run of verify's loop.
verify_run(modulus, num_steps, witness) ==
    verify_loop(StartRun(witness), num_steps, modulus)

\* vdf_mod_sqrt::verify: the returned bool, when the run ends "ok".
verify(modulus, seed, num_steps, witness) ==
    verify_run(modulus, num_steps, witness).x = div_rem_floor_rem(seed, modulus)

(***************************************************************************)
(* vdf_mimc                                                                *)
(***************************************************************************)
\* MODULUS, the prime field of MiMC.  The crate's field is the 256-bit prime
\* 2^256 - 351 * 2^32 + 1; the model keeps what the arithmetic relies on, a
\* prime P with P mod 3 = 2, in a field small enough to enumerate.
MODULUS == 11

\* L_FERMAT_EXPONENT, the cube-root exponent: 3 * L = 2 * MODULUS - 1, as
\* for the crate's pair of constants.
L_FERMAT_EXPONENT == 7

\* calculate_round_constants()[i], for i in 0..63: `(i.pow(7) ^ 42) as u64`.
calculate_round_constants(i) == BitXor(i ^ 7, 42)

\* `round_constants[i as usize % round_constants.len()]`
round_constant(i) == calculate_round_constants(i % 64)

\* The values of i in `for i in 1..num_steps`, in order.
round_indices(num_steps) == [k \in 1..(num_steps - 1) |-> k]

\* One iteration of forward_mimc's loop.
forward_round(run, i) ==
    LET c == pow_mod(run.x, 3, MODULUS)
    IN  IF ~c.some THEN [run EXCEPT !.status = "panic"]
        ELSE [run EXCEPT !.x = trunc_rem(c.val + round_constant(i), MODULUS),
                         !.iters = run.iters + 1]

\* The loop over is, front to back.
RECURSIVE forward_loop(_, _)
forward_loop(run, is) ==
    IF is = <<>> \/ run.status # "ok" THEN run
    ELSE forward_loop(forward_round(run, Head(is)), Tail(is))

\* vdf_mimc::forward_mimc
forward_mimc(num_steps, input) ==
    forward_loop(StartRun(input), round_indices(num_steps))

\* Mutation: the round constant added, as in the forward round.
backward_round_add(run, i) ==
    LET r == pow_mod(run.x + round_constant(i), L_FERMAT_EXPONENT, MODULUS)
    IN  IF ~r.some THEN [run EXCEPT !.status = "panic"]
        ELSE [run EXCEPT !.x = r.val, !.iters = run.iters + 1]

\* One iteration of backward_mimc's loop.
backward_round(run, i) ==
    LET r == pow_mod(run.x - round_constant(i), L_FERMAT_EXPONENT, MODULUS)
    IN  IF ~r.some THEN [run EXCEPT !.status = "panic"]
        ELSE [run EXCEPT !.x = r.val, !.iters = run.iters + 1]

\* The loop over is, back to front (`.rev()`).
RECURSIVE backward_loop(_, _)
backward_loop(run, is) ==
    IF is = <<>> \/ run.status # "ok" THEN run
    ELSE backward_loop(backward_round(run, is[Len(is)]),
                       SubSeq(is, 1, Len(is) - 1))

\* vdf_mimc::backward_mimc
backward_mimc(num_steps, input) ==
    backward_loop(StartRun(input), round_indices(num_steps))

\* vdf_mimc::eval
mimc_eval(seed, num_steps) == backward_mimc(num_steps, seed)

\* vdf_mimc::verify: the returned bool, when the run ends "ok".
mimc_verify(seed, num_steps, witness) ==
    forward_mimc(num_steps, witness).x = seed

(***************************************************************************)
(* The session of a caller.                                                *)
(***************************************************************************)
VARIABLES
    scheme,      \* which module the session uses: "mod_sqrt" or "mimc"
    modulus,     \* the modulus argument (MODULUS in a mimc session)
    seed,        \* the seed argument
    num_steps,   \* the num_steps argument
    response,    \* the run of eval, status "none" before eval is called
    witness,     \* the witness argument of the last verify call
    verdict,     \* the run of the last verify call, with the returned bool
    call         \* the last call made

vars == <<scheme, modulus, seed, num_steps, response, witness, verdict, call>>

NoRun == [x |-> 0, status |-> "none", iters |-> 0, permuted |-> <<>>, retries |-> <<>>]
NoVerdict == [run |-> NoRun, is_verified |-> FALSE]

Init ==
    /\ scheme \in {"mod_sqrt", "mimc"}
    /\ modulus \in (IF scheme = "mod_sqrt" THEN Moduli ELSE {MODULUS})
    /\ seed \in Values
    /\ num_steps \in Steps
    /\ response = NoRun
    /\ witness = 0
    /\ verdict = NoVerdict
    /\ call = "none"

\* vdf_mod_sqrt::eval(&modulus, &seed, num_steps)
SqrtEval ==
    /\ scheme = "mod_sqrt"
    /\ call = "none"
    /\ response' = eval(modulus, seed, num_steps)
    /\ call' = "eval"
    /\ UNCHANGED <<scheme, modulus, seed, num_steps, witness, verdict>>

\* vdf_mod_sqrt::verify(&modulus, &seed, num_steps, &w)
SqrtVerify(w, how) ==
    /\ scheme = "mod_sqrt"
    /\ call \in {"none", "eval"}
    /\ witness' = w
    /\ verdict' = [run |-> verify_run(modulus, num_steps, w),
                   is_verified |-> verify(modulus, seed, num_steps, w)]
    /\ call' = how
    /\ UNCHANGED <<scheme, modulus, seed, num_steps, response>>

\* verify on a witness of the caller's choosing
SqrtVerifyAny == \E w \in Values : SqrtVerify(w, "verify")

\* main: verify on the witness eval returned
SqrtVerifyResponse ==
    /\ response.status = "ok"
    /\ SqrtVerify(response.x, "verify_response")

\* verify on the witness eval returned, plus one
SqrtVerifyTampered ==
    /\ response.status = "ok"
    /\ SqrtVerify(response.x + 1, "verify_tampered")

\* vdf_mimc::eval(&seed, num_steps)
MimcEval ==
    /\ scheme = "mimc"
    /\ call = "none"
    /\ response' = mimc_eval(seed, num_steps)
    /\ call' = "eval"
    /\ UNCHANGED <<scheme, modulus, seed, num_steps, witness, verdict>>

\* vdf_mimc::verify(&seed, num_steps, &w)
MimcVerify(w, how) ==
    /\ scheme = "mimc"
    /\ call \in {"none", "eval"}
    /\ witness' = w
    /\ verdict' = [run |-> forward_mimc(num_steps, w),
                   is_verified |-> mimc_verify(seed, num_steps, w)]
    /\ call' = how
    /\ UNCHANGED <<scheme, modulus, seed, num_steps, response>>

MimcVerifyAny == \E w \in Values : MimcVerify(w, "verify")

\* tests::test: verify on the witness eval returned
MimcVerifyResponse ==
    /\ response.status = "ok"
    /\ MimcVerify(response.x, "verify_response")

MimcVerifyTampered ==
    /\ response.status = "ok"
    /\ MimcVerify(response.x + 1, "verify_tampered")

Next ==
    \/ SqrtEval
    \/ SqrtVerifyAny
    \/ SqrtVerifyResponse
    \/ SqrtVerifyTampered
    \/ MimcEval
    \/ MimcVerifyAny
    \/ MimcVerifyResponse
    \/ MimcVerifyTampered

Spec == Init /\ [][Next]_vars

(***************************************************************************)
(* Vocabulary of the properties.                                           *)
(***************************************************************************)
IsPrime(p) == p >= 2 /\ \A d \in 2..(p - 1) : p % d # 0

\* A modulus the square-root variant is meant for.
ValidModulus(p) == IsPrime(p) /\ p % 4 = 3

VerifyCalls == {"verify", "verify_response", "verify_tampered"}

InRange(vs, p) == \A i \in 1..Len(vs) : 1 <= vs[i] /\ vs[i] < p

AtMostOnce(ns) == \A i \in 1..Len(ns) : ns[i] <= 1

SqrtSession == scheme = "mod_sqrt"
MimcSession == scheme = "mimc"

(***************************************************************************)
(* Properties.                                                             *)
(***************************************************************************)
\* C1: square-root round trip.  For a prime modulus p with p mod 4 = 3, a
\* seed in [0, p) and num_steps >= 1, verify on the witness eval returned
\* returns true.
C1_RoundTrip ==
    (/\ SqrtSession
     /\ ValidModulus(modulus)
     /\ seed \in 0..(modulus - 1)
     /\ num_steps >= 1
     /\ call = "verify_response")
    => (verdict.run.status = "ok" /\ verdict.is_verified)

\* C2: MiMC inverse law.  For num_steps >= 1 and a field element x,
\* forward_mimc(n, backward_mimc(n, x)) = x, so verify accepts what eval
\* returned.
C2_MimcInverse ==
    (/\ MimcSession
     /\ seed \in 0..(MODULUS - 1)
     /\ num_steps >= 1
     /\ call = "verify_response")
    => /\ response.status = "ok"
       /\ verdict.run.status = "ok"
       /\ witness = response.x
       /\ verdict.run.x = seed
       /\ verdict.is_verified

\* C2 happens: a field element taken backward through two rounds and
\* forward again.
C2_Witness ==
    /\ MimcSession
    /\ seed \in 1..(MODULUS - 1)
    /\ num_steps = 3
    /\ call = "verify_response"
    /\ response.iters = 2
    /\ response.x # seed
    /\ verdict.is_verified

\* The case C3 is about: a witness returned by eval that verify accepts, and
\* verify called on that witness plus one.
C3_Case ==
    /\ SqrtSession
    /\ ValidModulus(modulus)
    /\ seed \in 0..(modulus - 1)
    /\ num_steps >= 1
    /\ call = "verify_tampered"
    /\ witness = response.x + 1
    /\ verify(modulus, seed, num_steps, response.x)

\* C3 as stated: whenever verify accepts w = eval(p, s, n), it rejects w + 1.
C3_TamperRejected == C3_Case => ~verdict.is_verified

\* The witnesses whose successor has the same square, or the same value
\* after two iterations.
C3_Colliding ==
    \/ 2 * response.x = modulus - 1
    \/ num_steps >= 2 /\ response.x = modulus - 1

\* C3, amended: whenever verify accepts w = eval(p, s, n), it rejects w + 1,
\* unless w = (p - 1) / 2, or num_steps >= 2 and w = p - 1.
C3_TamperRejectedUnlessColliding ==
    (C3_Case /\ ~C3_Colliding) => (verdict.run.status = "ok" /\ ~verdict.is_verified)

\* C3 happens: an accepted witness, not a colliding one, whose successor is
\* rejected after several iterations.
C3_Witness ==
    /\ C3_Case
    /\ ~C3_Colliding
    /\ num_steps >= 2
    /\ ~verdict.is_verified

\* C4: verify is total.  For a valid modulus (square-root variant) or the
\* fixed field (MiMC), every seed, step count and witness, verify runs all
\* its iterations and returns a boolean: no failing unwrap, no while loop
\* that does not exit.
C4_VerifyTotal ==
    (/\ call \in VerifyCalls
     /\ SqrtSession => ValidModulus(modulus))
    => /\ verdict.run.status = "ok"
       /\ verdict.is_verified \in BOOLEAN
       /\ SqrtSession => verdict.run.iters = num_steps
       /\ MimcSession => verdict.run.iters = Len(round_indices(num_steps))

\* C4 happens: verify on a negative witness, through all its iterations.
C4_Witness ==
    /\ SqrtSession
    /\ ValidModulus(modulus)
    /\ call = "verify"
    /\ witness < 0
    /\ num_steps = MaxSteps
    /\ verdict.run.iters = MaxSteps
    /\ verdict.run.status = "ok"

\* C5: zero steps, square-root variant.  For a valid modulus and every seed,
\* eval(p, s, 0) returns s mod p without iterating, and verify(p, s, 0, w)
\* returns true exactly when w = s mod p.
C5_ZeroSteps ==
    (SqrtSession /\ ValidModulus(modulus) /\ num_steps = 0)
    => /\ call = "eval" =>
            /\ response.status = "ok"
            /\ response.iters = 0
            /\ response.x = seed % modulus
       /\ call \in VerifyCalls =>
            /\ verdict.run.status = "ok"
            /\ verdict.run.iters = 0
            /\ verdict.is_verified <=> (witness = seed % modulus)

\* C5 happens: zero steps on a seed outside [0, p), accepted by verify.
C5_Witness ==
    /\ SqrtSession
    /\ ValidModulus(modulus)
    /\ num_steps = 0
    /\ seed < 0
    /\ call = "verify_response"
    /\ witness = seed % modulus
    /\ verdict.is_verified

\* C6: the MiMC variant uses the seed only after reduction into [0, P):
\* eval(s, n) = eval(s mod P, n) and verify(s, n, w) = verify(s mod P, n, w).
C6_SeedReduced ==
    MimcSession
    => /\ call = "eval" =>
            response.x = mimc_eval(seed % MODULUS, num_steps).x
       /\ call \in VerifyCalls =>
            verdict.is_verified = mimc_verify(seed % MODULUS, num_steps, witness)

\* C7: forward_mimc and backward_mimc execute exactly num_steps rounds.
C7_ExactlyNumStepsRounds ==
    MimcSession
    => /\ call = "eval" => response.iters = num_steps
       /\ call \in VerifyCalls => verdict.run.iters = num_steps

\* C8: debiasing range.  For a valid modulus p, every seed, witness and step
\* count, the value held right after the XOR step of every iteration of
\* eval and of verify is in [1, p).
C8_PermutedInRange ==
    (SqrtSession /\ ValidModulus(modulus))
    => /\ call = "eval" =>
            /\ Len(response.permuted) = num_steps
            /\ InRange(response.permuted, modulus)
       /\ call \in VerifyCalls =>
            /\ Len(verdict.run.permuted) = num_steps
            /\ InRange(verdict.run.permuted, modulus)

\* C8 happens: verify through several iterations on a witness >= p.
C8_Witness ==
    /\ SqrtSession
    /\ ValidModulus(modulus)
    /\ call = "verify"
    /\ witness >= modulus
    /\ num_steps >= 2
    /\ Len(verdict.run.permuted) = num_steps

\* C9: debiasing loop termination.  For a modulus p >= 2 and a value in
\* [0, p) entering the XOR step, the while loop exits after at most one
\* execution of its body; so eval ends after exactly num_steps iterations,
\* for every seed and step count.
C9_WhileAtMostOnce ==
    (SqrtSession /\ modulus >= 2)
    => /\ \A v \in 0..(modulus - 1) :
            /\ xor_permutation(v, modulus).exited
            /\ xor_permutation(v, modulus).retries <= 1
       /\ call = "eval" =>
            /\ response.status = "ok"
            /\ response.iters = num_steps
            /\ Len(response.retries) = num_steps
            /\ AtMostOnce(response.retries)

\* C9 happens: an eval whose while body ran, once, in some iteration.
C9_Witness ==
    /\ SqrtSession
    /\ modulus >= 2
    /\ call = "eval"
    /\ num_steps >= 2
    /\ response.status = "ok"
    /\ \E i \in 1..Len(response.retries) : response.retries[i] = 1

\* C10: verify sees the witness only through its square modulo p.  For a
\* modulus p >= 2, num_steps >= 1 and every witness w,
\* verify(p, s, n, w) = verify(p, s, n, p - w) = verify(p, s, n, w + p).
C10_WitnessUpToSign ==
    (/\ SqrtSession
     /\ modulus >= 2
     /\ num_steps >= 1
     /\ call \in VerifyCalls)
    => /\ verdict.run.status = "ok"
       /\ verify_run(modulus, num_steps, modulus - witness).status = "ok"
       /\ verify_run(modulus, num_steps, witness + modulus).status = "ok"
       /\ verdict.is_verified = verify(modulus, seed, num_steps, modulus - witness)
       /\ verdict.is_verified = verify(modulus, seed, num_steps, witness + modulus)

\* C10 happens: an accepted witness that differs from its negative modulo p.
C10_Witness ==
    /\ SqrtSession
    /\ modulus >= 3
    /\ num_steps >= 1
    /\ call = "verify"
    /\ (2 * witness) % modulus # 0
    /\ verdict.is_verified

====
